---- MODULE Spec2Model ----
(***************************************************************************)
(* BlackVarianceCurve<Interpolator1D>                                      *)
(* (ql/Volatilities/blackvariancecurve.hpp): a Black volatility curve      *)
(* modelled as a variance curve.                                           *)
(*                                                                         *)
(* Dates are serial day numbers, times are day counts (one unit of time is *)
(* 1/360 of a year), volatilities are integers, and a double is an exact   *)
(* rational, or NaN / Inf where the code divides by zero.  Rounding of     *)
(* doubles is not modelled.                                                *)
(***************************************************************************)
EXTENDS Integers, Sequences, FiniteSets

VARIABLES status, args, ctorError, curve, last, notified

vars == <<status, args, ctorError, curve, last, notified>>

(***************************************************************************)
(* Bounds of the model.                                                    *)
(***************************************************************************)
MaxDate == 3
MaxLen == 2
MaxVol == 1
MaxNotify == 1

Dates == 0..MaxDate
Vols == 0..MaxVol
QueryTimes == (0 - 1)..(MaxDate + 1)
Labels == {"", "SPX"}
DayCounters == {"Actual360", "Thirty360"}
Interpolators == {"Linear", "BackwardFlat"}

SeqsUpTo(S, n) == UNION {[1..k -> S] : k \in 0..n}

(***************************************************************************)
(* Doubles.                                                                *)
(***************************************************************************)
Abs(n) == IF n < 0 THEN 0 - n ELSE n

RECURSIVE Gcd(_, _)
Gcd(a, b) == IF b = 0 THEN a ELSE Gcd(b, a % b)

NaN == [kind |-> "nan", num |-> 0, den |-> 0]
Inf(sign) == [kind |-> "inf", num |-> sign, den |-> 0]

\* the double n/d; x/0 is NaN for x = 0 and +-Inf otherwise
Ratio(n, d) ==
    IF d = 0 THEN (IF n = 0 THEN NaN ELSE Inf(IF n < 0 THEN 0 - 1 ELSE 1))
    ELSE LET g == Gcd(Abs(n), Abs(d))
             s == IF d < 0 THEN 0 - 1 ELSE 1
         IN [kind |-> "num", num |-> (s * n) \div g, den |-> (s * d) \div g]

Num(n) == Ratio(n, 1)

IsFinite(x) == x.kind = "num"

\* x * k for a double x and an integer-valued double k
Times(x, k) ==
    IF x.kind = "nan" THEN NaN
    ELSE IF x.kind = "inf" THEN (IF k = 0 THEN NaN ELSE Inf(IF k < 0 THEN 0 - x.num ELSE x.num))
    ELSE Ratio(x.num * k, x.den)

\* x / k for a double x and an integer-valued double k
Over(x, k) ==
    IF x.kind = "nan" THEN NaN
    ELSE IF x.kind = "inf" THEN Inf(IF k < 0 THEN 0 - x.num ELSE x.num)
    ELSE Ratio(x.num, x.den * k)

Plus(x, y) ==
    IF IsFinite(x) /\ IsFinite(y)
    THEN Ratio(x.num * y.den + y.num * x.den, x.den * y.den)
    ELSE NaN

\* x <= y and x == y as the comparison of doubles: false when either is NaN
LessEq(x, y) ==
    /\ x.kind # "nan" /\ y.kind # "nan"
    /\ IF IsFinite(x) /\ IsFinite(y) THEN x.num * y.den <= y.num * x.den
       ELSE IF x.kind = "inf" /\ y.kind = "inf" THEN x.num <= y.num
       ELSE IF x.kind = "inf" THEN x.num < 0
       ELSE y.num > 0

EqualTo(x, y) == x.kind # "nan" /\ y.kind # "nan" /\ x = y

(***************************************************************************)
(* DayCounter::yearFraction, the external day-count collaborator.          *)
(* Serial 0 is January 29th: 29, 30, 31 January, 1 February, ...           *)
(***************************************************************************)
Month(d) == IF d <= 2 THEN 1 ELSE 2
DayOfMonth(d) == IF d <= 2 THEN 29 + d ELSE d - 2

Min(a, b) == IF a <= b THEN a ELSE b

Thirty360Position(d) == 30 * Month(d) + Min(DayOfMonth(d), 30)

yearFraction(dc, d1, d2) ==
    IF dc = "Actual360" THEN d2 - d1
    ELSE Thirty360Position(d2) - Thirty360Position(d1)

(***************************************************************************)
(* What a call yields: a value, a thrown Error, or (where the code reads   *)
(* outside a vector) the process dying.                                    *)
(***************************************************************************)
Value(v) == [kind |-> "value", value |-> v, text |-> ""]
Error(msg) == [kind |-> "error", value |-> NaN, text |-> msg]
Crash == [kind |-> "crash", value |-> NaN, text |-> ""]
\* a returned Date, and a returned std::string or DayCounter
DateValue(d) == [kind |-> "date", value |-> Num(d), text |-> ""]
Text(str) == [kind |-> "string", value |-> NaN, text |-> str]

\* QL_REQUIRE messages
SizeMismatch == "mismatch between date vector and black vol vector"
FirstDateNotAfterReference == "cannot have dates[0]<=referenceDate"
NotSortedUnique == "dates must be sorted unique!"
NegativeTime == "negative time not allowed"
GreaterThanMaxTime == "time greater than max time"
OutOfInterpolationRange == "interpolation range"

(***************************************************************************)
(* Reading the first or last element of a vector.  On an empty vector the  *)
(* read is undefined: the process dies, or the read yields whatever is in  *)
(* memory.                                                                 *)
(***************************************************************************)
UndefinedDate ==
    {[crash |-> TRUE, v |-> 0]} \cup {[crash |-> FALSE, v |-> d] : d \in Dates}

ReadBack(v) ==
    IF Len(v) > 0 THEN {[crash |-> FALSE, v |-> v[Len(v)]]} ELSE UndefinedDate

ReadFront(v) ==
    IF Len(v) > 0 THEN {[crash |-> FALSE, v |-> v[1]]} ELSE UndefinedDate

\* what a call can yield once it has read outside a vector
UndefinedOutcomes ==
    {Crash, Value(NaN), Value(Num(0)), Value(Num(1)), Error(GreaterThanMaxTime)}

(***************************************************************************)
(* Interpolator1D, the pluggable interpolation collaborator, built over    *)
(* [xBegin, xEnd) and yBegin and evaluated as operator()(x, extrapolate).  *)
(***************************************************************************)
Interpolator1D(kind, xs, ys) == [kind |-> kind, xs |-> xs, ys |-> ys]

\* the last index i with xs[i] <= x (0 when there is none)
Locate(xs, x) ==
    LET below == {i \in 1..Len(xs) : xs[i] <= x}
    IN IF below = {} THEN 0 ELSE CHOOSE i \in below : \A k \in below : k <= i

LinearValue(xs, ys, x) ==
    LET i == Locate(xs, x)
    IN IF i = 0 THEN Num(ys[1])
       ELSE IF i = Len(xs) \/ xs[i] = x THEN Num(ys[i])
       ELSE Plus(Num(ys[i]),
                 Ratio((x - xs[i]) * (ys[i + 1] - ys[i]), xs[i + 1] - xs[i]))

BackwardFlatValue(xs, ys, x) ==
    LET i == Locate(xs, x)
    IN IF i = 0 THEN Num(ys[1])
       ELSE IF i = Len(xs) \/ xs[i] = x THEN Num(ys[i])
       ELSE Num(ys[i + 1])

Evaluate(surface, x, extrapolate) ==
    LET xs == surface.xs
        ys == surface.ys
    IN IF (x < xs[1] \/ x > xs[Len(xs)]) /\ ~extrapolate
       THEN Error(OutOfInterpolationRange)
       ELSE IF surface.kind = "Linear" THEN Value(LinearValue(xs, ys, x))
       ELSE Value(BackwardFlatValue(xs, ys, x))

(***************************************************************************)
(* BlackVarianceCurve: the constructor.                                    *)
(***************************************************************************)
NoCurve ==
    [referenceDate_ |-> 0, dayCounter_ |-> "", maxDate_ |-> 0, underlying_ |-> "",
     times_ |-> <<>>, variances_ |-> <<>>,
     varianceSurface_ |-> Interpolator1D("", <<>>, <<>>)]

Built(c) == [status |-> "built", error |-> "", curve |-> c]
\* a constructor that throws leaves no object behind
Failed(msg) == [status |-> "failed", error |-> msg, curve |-> NoCurve]
Crashed == [status |-> "crashed", error |-> "", curve |-> NoCurve]

\* QL_REQUIRE(dates.size()==blackVolCurve.size(), ...)
SizesMatch(dates, blackVolCurve) == Len(dates) = Len(blackVolCurve)

\* QL_REQUIRE(dates[0]>referenceDate, ...)
FirstDateAfterReference(first, referenceDate) == first > referenceDate

\* QL_REQUIRE(j==0 || times_[j]>times_[j-1], ...), j counted from 1 here
SortedUnique(times, j) == j = 1 \/ times[j] > times[j - 1]

\* variances_[j] = times_[j] * blackVolCurve[j]*blackVolCurve[j]
NodeVariance(time, vol) == time * vol * vol

\* the constructor on the arguments a, given what dates.back() and dates[0] read
ConstructFrom(a, back, front) ==
    IF back.crash THEN Crashed
    ELSE IF ~SizesMatch(a.dates, a.blackVolCurve) THEN Failed(SizeMismatch)
    ELSE IF front.crash THEN Crashed
    ELSE IF ~FirstDateAfterReference(front.v, a.referenceDate)
         THEN Failed(FirstDateNotAfterReference)
    ELSE LET n == Len(a.blackVolCurve)
             times == [j \in 1..n |->
                          yearFraction(a.dayCounter, a.referenceDate, a.dates[j])]
             variances == [j \in 1..n |-> NodeVariance(times[j], a.blackVolCurve[j])]
         IN IF \E j \in 1..n : ~SortedUnique(times, j)
            THEN Failed(NotSortedUnique)
            ELSE Built([referenceDate_ |-> a.referenceDate,
                        dayCounter_ |-> a.dayCounter,
                        maxDate_ |-> back.v,
                        underlying_ |-> a.underlying,
                        times_ |-> times,
                        variances_ |-> variances,
                        varianceSurface_ |->
                            Interpolator1D(a.interpolator, times, variances)])

\* every way the constructor can end on the arguments a
BlackVarianceCurve(a) ==
    {ConstructFrom(a, back, front) :
        back \in ReadBack(a.dates), front \in ReadFront(a.dates)}

(***************************************************************************)
(* BlackVarianceCurve::blackVarianceImpl(t, strike, extrapolate)           *)
(***************************************************************************)
\* QL_REQUIRE(t>=0.0, ...)
TimeAllowed(t) == t >= 0

\* if (t<=times_[0])
InFirstRegion(c, t) == t <= c.times_[1]

\* a slip: else if (t<times_.back())
InInterpolatedRegionStrict(c, t) == t < c.times_[Len(c.times_)]

\* else if (t<=times_.back())
InInterpolatedRegion(c, t) == t <= c.times_[Len(c.times_)]

\* (*varianceSurface_)(node, extrapolate) * t / node
Scaled(c, node, t, extrapolate) ==
    LET at == Evaluate(c.varianceSurface_, node, extrapolate)
    IN IF at.kind = "value" THEN Value(Over(Times(at.value, t), node)) ELSE at

\* a slip: the final return reached without the QL_REQUIRE(extrapolate, ...)
ExtrapolatedUnchecked(c, t, extrapolate) ==
    Scaled(c, c.times_[Len(c.times_)], t, extrapolate)

\* the branch of the final else: QL_REQUIRE(extrapolate, ...), then the return
Extrapolated(c, t, extrapolate) ==
    IF ~extrapolate THEN Error(GreaterThanMaxTime)
    ELSE Scaled(c, c.times_[Len(c.times_)], t, extrapolate)

\* every way the query can end
blackVarianceImpl(c, t, extrapolate) ==
    IF ~TimeAllowed(t) THEN {Error(NegativeTime)}
    ELSE IF Len(c.times_) = 0 THEN UndefinedOutcomes
    ELSE IF InFirstRegion(c, t) THEN {Scaled(c, c.times_[1], t, extrapolate)}
    ELSE IF InInterpolatedRegion(c, t)
         THEN {Evaluate(c.varianceSurface_, t, extrapolate)}
    ELSE {Extrapolated(c, t, extrapolate)}

(***************************************************************************)
(* The accessors.                                                          *)
(***************************************************************************)
referenceDate(c) == {DateValue(c.referenceDate_)}
dayCounter(c) == {Text(c.dayCounter_)}
minDate(c) == {DateValue(c.referenceDate_)}
maxDate(c) == {DateValue(c.maxDate_)}
minTime(c) == {Value(Num(0))}
\* times_.back()
maxTime(c) ==
    IF Len(c.times_) > 0 THEN {Value(Num(c.times_[Len(c.times_)]))}
    ELSE UndefinedOutcomes
underlying(c) == {Text(c.underlying_)}

AccessorNames ==
    {"referenceDate", "dayCounter", "minDate", "maxDate", "minTime", "maxTime",
     "underlying"}

Accessor(name, c) ==
    CASE name = "referenceDate" -> referenceDate(c)
      [] name = "dayCounter" -> dayCounter(c)
      [] name = "minDate" -> minDate(c)
      [] name = "maxDate" -> maxDate(c)
      [] name = "minTime" -> minTime(c)
      [] name = "maxTime" -> maxTime(c)
      [] name = "underlying" -> underlying(c)

(***************************************************************************)
(* The state machine: a caller constructs a curve, then queries it, reads  *)
(* its accessors and signals upstream changes.                             *)
(***************************************************************************)
NoArgs ==
    [referenceDate |-> 0, dayCounter |-> "", dates |-> <<>>, blackVolCurve |-> <<>>,
     underlying |-> "", interpolator |-> ""]

NoCall == [op |-> "none", t |-> 0, extrapolate |-> FALSE, outcome |-> Value(NaN)]

Call(op, t, extrapolate, outcome) ==
    [op |-> op, t |-> t, extrapolate |-> extrapolate, outcome |-> outcome]

Init ==
    /\ status = "none"
    /\ args = NoArgs
    /\ ctorError = ""
    /\ curve = NoCurve
    /\ last = NoCall
    /\ notified = 0

\* the arguments a caller may pass
CtorArgs ==
    [referenceDate : Dates, dayCounter : DayCounters,
     dates : SeqsUpTo(Dates, MaxLen), blackVolCurve : SeqsUpTo(Vols, MaxLen),
     underlying : Labels, interpolator : Interpolators]

\* new BlackVarianceCurve<Interpolator1D>(...)
Construct ==
    /\ status = "none"
    /\ \E a \in CtorArgs :
         \E r \in BlackVarianceCurve(a) :
            /\ args' = a
            /\ status' = r.status
            /\ ctorError' = r.error
            /\ curve' = r.curve
    /\ UNCHANGED <<last, notified>>

\* the number of notifyObservers() broadcasts one update() makes
NotificationsPerUpdate == notified + 1

\* blackVarianceImpl leaves the object alone (it is const)
AfterQuery(c) == c

\* a slip: update() resets the node variances before notifying
AfterUpdateReset(c) == [c EXCEPT !.variances_ = [j \in DOMAIN c.variances_ |-> 0]]

\* update() { notifyObservers(); } leaves the object alone
AfterUpdate(c) == c

Query ==
    /\ status = "built"
    /\ \E t \in QueryTimes, extrapolate \in BOOLEAN :
         \E o \in blackVarianceImpl(curve, t, extrapolate) :
            /\ last' = Call("blackVariance", t, extrapolate, o)
            /\ status' = IF o.kind = "crash" THEN "crashed" ELSE status
    /\ curve' = AfterQuery(curve)
    /\ UNCHANGED <<args, ctorError, notified>>

Read ==
    /\ status = "built"
    /\ \E name \in AccessorNames :
         \E o \in Accessor(name, curve) :
            /\ last' = Call(name, 0, FALSE, o)
            /\ status' = IF o.kind = "crash" THEN "crashed" ELSE status
    /\ UNCHANGED <<args, ctorError, curve, notified>>

\* BlackVarianceCurve::update
Update ==
    /\ status = "built"
    /\ notified < MaxNotify
    /\ notified' = NotificationsPerUpdate
    /\ curve' = AfterUpdate(curve)
    /\ last' = Call("update", 0, FALSE, Value(NaN))
    /\ UNCHANGED <<status, args, ctorError>>

Next == Construct \/ Query \/ Read \/ Update

Spec == Init /\ [][Next]_vars

(***************************************************************************)
(* Vocabulary of the properties.                                           *)
(***************************************************************************)
HasNodes == Len(curve.times_) > 0
FirstTime == curve.times_[1]
LastTime == curve.times_[Len(curve.times_)]
Queried == last.op = "blackVariance"
\* the time the day counter gives the i-th date passed to the constructor
QuoteTime(i) == yearFraction(args.dayCounter, args.referenceDate, args.dates[i])
\* interpolant(node) * t / node
ScaledFrom(node, t, extrapolate) ==
    Value(Over(Times(Evaluate(curve.varianceSurface_, node, extrapolate).value, t),
               node))

(***************************************************************************)
(* C1: a query with t < 0 fails with the negative-time error               *)
(* (DomainError); on a curve with last node time times.back(), a query     *)
(* with t > times.back() fails with the greater-than-max-time error        *)
(* (ExtrapolationError) when extrapolate is false, so no value is returned *)
(* then, and returns interpolant(times.back()) * t / times.back() when     *)
(* extrapolate is true.                                                    *)
(***************************************************************************)
C1_ErrorPolicy ==
    Queried =>
        /\ last.t < 0 => last.outcome = Error(NegativeTime)
        /\ HasNodes /\ last.t > LastTime /\ ~last.extrapolate
               => last.outcome = Error(GreaterThanMaxTime)
        /\ HasNodes /\ last.t > LastTime /\ last.extrapolate
               => last.outcome = ScaledFrom(LastTime, last.t, TRUE)
        /\ NegativeTime # GreaterThanMaxTime

C1_Witness ==
    /\ Queried /\ HasNodes /\ last.t > LastTime /\ ~last.extrapolate
    /\ last.outcome.kind = "error"

(***************************************************************************)
(* C2: for 0 <= t <= times.back() the query follows the region policy:     *)
(* interpolant(times[0]) * t / times[0] for t <= times[0], so that         *)
(* variance(0, false) == 0, and the interpolant's value at t with the      *)
(* caller's flag for times[0] < t <= times.back(); every t >= 0 falls in    *)
(* exactly one of the regions that times[0] and times.back() delimit.      *)
(***************************************************************************)
C2_RegionPolicy ==
    (Queried /\ HasNodes /\ last.t >= 0) =>
        /\ last.t <= FirstTime
               => last.outcome = ScaledFrom(FirstTime, last.t, last.extrapolate)
        /\ (last.t = 0 /\ ~last.extrapolate)
               => /\ last.outcome.kind = "value"
                  /\ EqualTo(last.outcome.value, Num(0))
        /\ (FirstTime < last.t /\ last.t <= LastTime)
               => last.outcome =
                      Evaluate(curve.varianceSurface_, last.t, last.extrapolate)
        /\ Cardinality({r \in {"A", "B", "C"} :
               \/ r = "A" /\ 0 <= last.t /\ last.t <= FirstTime
               \/ r = "B" /\ FirstTime < last.t /\ last.t <= LastTime
               \/ r = "C" /\ last.t > LastTime}) = 1

(***************************************************************************)
(* C3: construction fails with one of the constructor's errors whenever    *)
(* the date count differs from the volatility count, or the first date is  *)
(* not strictly after the reference date, or a node time is not strictly   *)
(* greater than its predecessor; and then no curve object exists.          *)
(***************************************************************************)
C3_InvalidInput ==
    LET a == args
        mismatch == Len(a.dates) # Len(a.blackVolCurve)
        firstNotAfter == Len(a.dates) > 0 /\ a.dates[1] <= a.referenceDate
        unsorted == \E j \in 2..Len(a.dates) : QuoteTime(j) <= QuoteTime(j - 1)
    IN (status # "none" /\ (mismatch \/ firstNotAfter \/ unsorted)) =>
           /\ status = "failed"
           /\ ctorError \in {SizeMismatch, FirstDateNotAfterReference, NotSortedUnique}
           /\ curve = NoCurve

(***************************************************************************)
(* C4: every constructed curve has at least one node, a strictly positive  *)
(* first node time and strictly increasing node times.                     *)
(***************************************************************************)
C4_NodeInvariant ==
    status = "built" =>
        /\ Len(curve.times_) >= 1
        /\ curve.times_[1] > 0
        /\ \A j \in 2..Len(curve.times_) : curve.times_[j] > curve.times_[j - 1]

(***************************************************************************)
(* C5: node i of a constructed curve is (t_i, v_i) with                    *)
(* t_i = yearFraction(referenceDate, dates[i]) and v_i = t_i * vols[i]^2,  *)
(* there are as many nodes as quotes, and variance(t_i, false) == v_i at   *)
(* every node.                                                             *)
(***************************************************************************)
C5_NodeValues ==
    /\ status = "built" =>
           /\ Len(curve.times_) = Len(args.blackVolCurve)
           /\ Len(curve.variances_) = Len(args.blackVolCurve)
           /\ \A i \in 1..Len(curve.times_) :
                 /\ curve.times_[i] = QuoteTime(i)
                 /\ curve.variances_[i] =
                        QuoteTime(i) * args.blackVolCurve[i] * args.blackVolCurve[i]
    /\ \A i \in 1..Len(curve.times_) :
           (Queried /\ ~last.extrapolate /\ last.t = curve.times_[i]) =>
               /\ last.outcome.kind = "value"
               /\ EqualTo(last.outcome.value, Num(curve.variances_[i]))

(***************************************************************************)
(* C6: with non-negative volatilities, variance(t2) >= variance(t1) for    *)
(* all t1 < t2 in [0, times.back()].                                       *)
(***************************************************************************)
C6_Monotone ==
    (Queried /\ HasNodes /\ \A i \in 1..Len(args.blackVolCurve) : args.blackVolCurve[i] >= 0) =>
        \A t1 \in QueryTimes :
            (0 <= t1 /\ t1 < last.t /\ last.t <= LastTime) =>
                \A o1 \in blackVarianceImpl(curve, t1, last.extrapolate) :
                    /\ o1.kind = "value" /\ last.outcome.kind = "value"
                    /\ LessEq(o1.value, last.outcome.value)

(***************************************************************************)
(* C7: the query is continuous at both region boundaries: at t = times[0]  *)
(* the scaled formula of the first region gives the interpolant's value at *)
(* times[0], and at t = times.back() the scaled formula of the             *)
(* extrapolation region gives the value returned at times.back().          *)
(***************************************************************************)
C7_Continuous ==
    (Queried /\ HasNodes) =>
        /\ last.t = FirstTime =>
               EqualTo(ScaledFrom(FirstTime, FirstTime, last.extrapolate).value,
                       Evaluate(curve.varianceSurface_, FirstTime, last.extrapolate).value)
        /\ last.t = LastTime =>
               /\ last.outcome.kind = "value"
               /\ EqualTo(ScaledFrom(LastTime, LastTime, TRUE).value, last.outcome.value)

(***************************************************************************)
(* C8: once a curve is constructed, no query, accessor or update() changes *)
(* it or the arguments it was built from, and each update() forwards       *)
(* exactly one notification; nothing else notifies.                        *)
(***************************************************************************)
C8_Immutable ==
    [][status = "built" =>
          /\ curve' = curve
          /\ args' = args
          /\ (last'.op = "update" /\ status' = "built") => notified' = notified + 1
          /\ notified' # notified => last'.op = "update"]_vars

C8_Witness == status = "built" /\ last.op = "update" /\ notified > 0

(***************************************************************************)
(* C9: the accessors of a constructed curve never fail and return the      *)
(* reference date (referenceDate, minDate), the last quoted date           *)
(* (maxDate), 0 (minTime), the last node's time, which is                  *)
(* yearFraction(referenceDate, maxDate) (maxTime), and the label given at  *)
(* construction (underlying).                                              *)
(***************************************************************************)
C9_Accessors ==
    LET n == Len(args.dates)
    IN last.op \in AccessorNames =>
        /\ last.outcome.kind \notin {"crash", "error"}
        /\ last.op \in {"referenceDate", "minDate"}
               => last.outcome = DateValue(args.referenceDate)
        /\ last.op = "maxDate" =>
               n > 0 /\ last.outcome = DateValue(args.dates[n])
        /\ last.op = "minTime" => last.outcome = Value(Num(0))
        /\ last.op = "maxTime" =>
               n > 0 /\ last.outcome = Value(Num(QuoteTime(n)))
        /\ last.op = "underlying" => last.outcome = Text(args.underlying)
        /\ last.op = "dayCounter" => last.outcome = Text(args.dayCounter)

(***************************************************************************)
(* C10: on a curve with last node time maxTime(), a query with             *)
(* 0 <= t <= maxTime() raises no error, and whatever a query with          *)
(* t <= maxTime() yields under one value of the extrapolate flag it yields *)
(* under the other.                                                        *)
(***************************************************************************)
C10_FlagIrrelevantInRange ==
    (Queried /\ HasNodes /\ last.t <= LastTime) =>
        /\ last.t >= 0 => last.outcome.kind = "value"
        /\ blackVarianceImpl(curve, last.t, ~last.extrapolate) = {last.outcome}

C10_Witness ==
    /\ Queried /\ HasNodes /\ last.extrapolate
    /\ FirstTime < last.t /\ last.t < LastTime
    /\ last.outcome.kind = "value"

====
